---- MODULE Spec2Model ----
(***************************************************************************)
(* State-machine model of the ParalonCloud image proxy:                    *)
(*   app/config.py          Config                                         *)
(*   app/paralon_client.py  ParalonClient (probe loop, SDK fallback,       *)
(*                          edit, variation)                               *)
(*   app/image_processor.py ImageProcessor (download_image, blend)         *)
(*   app/main.py            module initialisation and the request handlers *)
(* One request is in flight at a time; every action is the code that runs  *)
(* between two awaits of the handler, the answer of the awaited remote     *)
(* call being the action's input.                                          *)
(***************************************************************************)
EXTENDS Integers, Sequences, FiniteSets, TLC

\* Requests served in one run of the server.
MaxRequests == 1

(***************************************************************************)
(* Python values                                                           *)
(***************************************************************************)
\* None
None == [t |-> "None"]

\* A str value.
Str(s) == [t |-> "str", s |-> s]

\* A bytes value.
Bytes(s) == [t |-> "bytes", s |-> s]

\* A dict (its keys are the fields of the record d) and a list.
Dict(d) == [t |-> "dict", v |-> d]
List(q) == [t |-> "list", v |-> q]

\* An int value.
PyInt(n) == [t |-> "int", n |-> n]

\* The dict with no key.
EmptyDict == Dict([k \in {} |-> None])

\* The strings that start with "http://" or "https://".
HttpStrings == {"http://x/1.png", "https://x/2.png"}

\* Base64 text whose decoding succeeds, and text whose padding is wrong.
GoodB64 == "QUJD"
BadB64 == "QUJDR"

\* Base64 text with a character outside the base64 alphabet.
DirtyB64 == "QUJD!"

\* An exception: its class and its message (str(e)).
Exc(cls, msg) == [cls |-> cls, msg |-> msg]

(***************************************************************************)
(* app/config.py                                                           *)
(***************************************************************************)
\* A variable missing from the environment: os.getenv gives None.
Absent == "<absent>"

DefaultApiBase == "https://paraloncloud.com/v1"

\* The environments the server is started in.
KeyEnvValues == {Absent, "", "sk-key"}
BaseEnvValues == {Absent, "http://api/"}

\* os.getenv(name): None when the variable is missing.
Getenv(v) == IF v = Absent THEN None ELSE Str(v)

\* os.getenv(name, default)
GetenvDefault(v, default) == IF v = Absent THEN Str(default) ELSE Str(v)

\* Python truthiness of None and of a str.
Truthy(v) == v.t = "str" /\ v.s # ""

\* Config.validate: raises ValueError when the key is missing or empty.
ConfigValidate(key) == IF ~Truthy(key)
                       THEN Exc("ValueError", [t |-> "key_not_found"])
                       ELSE None

\* str.rstrip('/')
Rstrip(s) == CASE s = "http://api/" -> "http://api"
               [] OTHER -> s

(***************************************************************************)
(* The remote API as the client sees it                                    *)
(***************************************************************************)
\* Response bodies (response.text).
TextDataUrl == "{\"data\":[{\"url\":\"http://x/1.png\"}]}"
TextDataMixed == "{\"data\":[{\"b64_json\":\"QUJD\"},{\"url\":\"https://x/2.png\",\"b64_json\":\"QUJD\"}]}"
TextDataBadB64 == "{\"data\":[{\"b64_json\":\"QUJDR\"}]}"
TextDataDirtyB64 == "{\"data\":[{\"b64_json\":\"QUJD!\"}]}"
TextDataEmpty == "{\"data\":[]}"
TextNotJson == "<html>ok</html>"

\* response.json(): the parsed body, or the JSONDecodeError it raises.
ResponseJson(text) ==
    CASE text = TextDataUrl ->
           Dict([data |-> List(<<Dict([url |-> Str("http://x/1.png")])>>)])
      [] text = TextDataMixed ->
           Dict([data |-> List(<<Dict([b64_json |-> Str(GoodB64)]),
                                 Dict([url |-> Str("https://x/2.png"),
                                       b64_json |-> Str(GoodB64)])>>)])
      [] text = TextDataBadB64 ->
           Dict([data |-> List(<<Dict([b64_json |-> Str(BadB64)])>>)])
      [] text = TextDataDirtyB64 ->
           Dict([data |-> List(<<Dict([b64_json |-> Str(DirtyB64)])>>)])
      [] text = TextDataEmpty -> Dict([data |-> List(<<>>)])
      [] OTHER -> Exc("JSONDecodeError", [t |-> "json_decode", text |-> text])

\* What `await client.post(...)` gives: a response, or a transport exception.
Response(status, text) == [t |-> "response", status |-> status, text |-> text]
PostRaises(exc) == [t |-> "raise", exc |-> exc]

ProbeAnswers ==
    {Response(200, x) : x \in {TextDataUrl, TextDataMixed, TextDataBadB64,
                               TextDataDirtyB64, TextDataEmpty, TextNotJson}}
    \cup {Response(404, "Not Found"), Response(401, "Unauthorized"),
          Response(500, "Internal Server Error"),
          PostRaises(Exc("ConnectTimeout", [t |-> "transport", what |-> "timed out"]))}

(***************************************************************************)
(* app/paralon_client.py: ParalonClient._generate_image_http               *)
(***************************************************************************)
\* How a piece of code ends: it returns a value, raises, or (a loop body)
\* goes on to the next iteration with the value of last_error.
Return(v) == [o |-> "return", v |-> v]
Raise(exc) == [o |-> "raise", exc |-> exc]
Continue(le) == [o |-> "continue", last_error |-> le]

IsExc(x) == "cls" \in DOMAIN x

\* The candidate path suffixes, in the order they are tried.
EndpointPaths == <<"/images/generations", "/v1/images/generations",
                   "/api/v1/images/generations", "/generate", "/v1/generate">>

NumCandidates == Len(EndpointPaths)

\* endpoints: f"{self.base_url}{suffix}"
Endpoints(base_url) ==
    [i \in 1..NumCandidates |-> [base |-> base_url, path |-> EndpointPaths[i]]]

\* Payload with quality added for every model.
PayloadAlwaysQuality(r) ==
    [prompt |-> r.prompt, model |-> r.model, size |-> r.size, n |-> r.n,
     quality |-> r.quality]

\* payload: quality is added for dall-e-3 only.
Payload(r) ==
    IF r.model = "dall-e-3"
    THEN [prompt |-> r.prompt, model |-> r.model, size |-> r.size, n |-> r.n,
          quality |-> r.quality]
    ELSE [prompt |-> r.prompt, model |-> r.model, size |-> r.size, n |-> r.n]

\* key is a substring of s, for the strings of this model.
Substring(key, s) == key = s \/ <<key, s>> \in {<<"data", "no data">>}

\* Python's `key in data` for a dict (a key), for a list (an element) and
\* for a str (a substring).
In(key, data) ==
    CASE data.t = "dict" -> key \in DOMAIN data.v
      [] data.t = "list" ->
           \E i \in 1..Len(data.v) : data.v[i].t = "str" /\ data.v[i].s = key
      [] data.t = "str" -> Substring(key, data.s)
      [] OTHER -> FALSE

\* data[key]: a list or a str indexed by a str raises TypeError.
Subscript(data, key) ==
    IF data.t = "dict" THEN data.v[key]
    ELSE Exc("TypeError", [t |-> "indices_must_be_integers", of |-> data.t])

\* The loop over data["data"]: url first, else b64_json, else nothing.
RECURSIVE ExtractData(_)
ExtractData(items) ==
    IF items = <<>> THEN <<>>
    ELSE LET img == Head(items)
             one == IF In("url", img) THEN <<img.v.url>>
                    ELSE IF In("b64_json", img) THEN <<img.v.b64_json>>
                    ELSE <<>>
         IN  one \o ExtractData(Tail(items))

\* The images taken from the body of a 200 response, or the TypeError of
\* `"data" in data` on a value that is no container and of data["data"],
\* data["images"] on a value that is no dict.
NormalizeImages(data) ==
    IF data.t \notin {"dict", "list", "str"}
    THEN Raise(Exc("TypeError", [t |-> "not_iterable", of |-> data.t]))
    ELSE IF In("data", data)
    THEN IF IsExc(Subscript(data, "data")) THEN Raise(Subscript(data, "data"))
         ELSE Return(ExtractData(Subscript(data, "data").v))
    ELSE IF In("images", data)
    THEN IF IsExc(Subscript(data, "images")) THEN Raise(Subscript(data, "images"))
         ELSE Return(Subscript(data, "images").v)
    ELSE IF data.t = "list" THEN Return(data.v)
    ELSE Return(<<[t |-> "str", s |-> "str(data)", of |-> data]>>)

\* f"API returned status {response.status_code}: {error_text}"
StatusMessage(response) ==
    [t |-> "api_status", status |-> response.status, text |-> response.text]

\* f"Endpoint {endpoint} not found (404)"
NotFoundMessage(endpoint) == [t |-> "endpoint_not_found", endpoint |-> endpoint]

\* TryBody without `if images: return images`: a 200 never ends the loop.
TryBodyWithoutReturn(answer, last_error) ==
    IF answer.t = "raise" THEN Raise(answer.exc)
    ELSE IF answer.status = 200
    THEN LET data == ResponseJson(answer.text)
         IN  IF IsExc(data) THEN Raise(data) ELSE Continue(last_error)
    ELSE IF answer.status = 404 THEN Continue(last_error)
    ELSE Raise(Exc("Exception", StatusMessage(answer)))

\* TryBody with a 200 without images recorded as a failure.
TryBodyRecordingEmpty(answer, last_error) ==
    IF answer.t = "raise" THEN Raise(answer.exc)
    ELSE IF answer.status = 200
    THEN LET data == ResponseJson(answer.text)
         IN  IF IsExc(data) THEN Raise(data)
             ELSE IF NormalizeImages(data).o = "raise" THEN NormalizeImages(data)
             ELSE IF NormalizeImages(data).v # <<>>
                  THEN NormalizeImages(data)
                  ELSE Continue([t |-> "no_images"])
    ELSE IF answer.status = 404 THEN Continue(last_error)
    ELSE Raise(Exc("Exception", StatusMessage(answer)))

\* The body of the try statement for one candidate, given what the POST
\* gave; last_error is the value the loop holds.
TryBody(answer, last_error) ==
    IF answer.t = "raise" THEN Raise(answer.exc)
    ELSE IF answer.status = 200
    THEN LET data == ResponseJson(answer.text)
         IN  IF IsExc(data) THEN Raise(data)
             ELSE IF NormalizeImages(data).o = "raise" THEN NormalizeImages(data)
             ELSE IF NormalizeImages(data).v # <<>>
                  THEN NormalizeImages(data)
                  ELSE Continue(last_error)
    ELSE IF answer.status = 404 THEN Continue(last_error)
    ELSE Raise(Exc("Exception", StatusMessage(answer)))

\* ExceptClauses with the second clause raising instead of continuing.
ExceptClausesRaising(exc, endpoint) ==
    IF exc.cls = "HTTPStatusError" /\ exc.msg.status = 404
    THEN Continue(NotFoundMessage(endpoint))
    ELSE Raise(exc)

\* The except clauses of the try statement: an HTTPStatusError is handled
\* by the first clause, every other Exception by the second.
ExceptClauses(exc, endpoint) ==
    IF exc.cls = "HTTPStatusError"
    THEN IF exc.msg.status = 404
         THEN Continue(NotFoundMessage(endpoint))
         ELSE Raise(Exc("Exception",
                        [t |-> "http_error", status |-> exc.msg.status,
                         text |-> exc.msg.text]))
    ELSE Continue(exc.msg)

\* One iteration of the loop over the endpoints.
Iteration(answer, endpoint, last_error) ==
    LET body == TryBody(answer, last_error)
    IN  IF body.o = "raise" THEN ExceptClauses(body.exc, endpoint) ELSE body

\* The exception raised after the loop.
AllFailed(last_error, base_url) ==
    Exc("Exception",
        [t |-> "all_endpoints_failed", last_error |-> last_error,
         base_url |-> base_url])

(***************************************************************************)
(* app/paralon_client.py: the calls made through the OpenAI SDK client     *)
(***************************************************************************)
\* An object of the SDK response's data list; attrs holds its attributes.
Image(attrs) == [t |-> "Image", attrs |-> attrs]

\* hasattr(img, name)
HasAttr(img, name) == name \in DOMAIN img.attrs

\* Python truthiness of None, a str and a list.
IsTrue(v) == CASE v.t = "None" -> FALSE
               [] v.t = "str" -> v.s # ""
               [] v.t = "list" -> v.v # <<>>
               [] OTHER -> TRUE

\* What the SDK call gives: a response object, or an exception of the SDK.
SdkResponse(data) == [t |-> "sdk_response", data |-> data]
SdkRaises(what) == [t |-> "raise", exc |-> Exc("APIError", [t |-> "sdk_error", what |-> what])]

SdkAnswers ==
    {SdkRaises("Connection error."),
     SdkResponse(None),
     SdkResponse(List(<<>>)),
     SdkResponse(List(<<Image([url |-> Str("http://x/1.png"), b64_json |-> None])>>)),
     SdkResponse(List(<<Image([url |-> None, b64_json |-> Str(GoodB64)])>>)),
     SdkResponse(List(<<Image([b64_json |-> Str(GoodB64)])>>))}

\* The arguments of self.client.images.generate.
GenerateArgs(r) ==
    [model |-> r.model, prompt |-> r.prompt, size |-> r.size,
     quality |-> r.quality, n |-> r.n]

\* The loop over response.data of _generate_image_openai.
RECURSIVE OpenaiResults(_)
OpenaiResults(items) ==
    IF items = <<>> THEN <<>>
    ELSE LET img == Head(items)
             one == IF HasAttr(img, "url") /\ IsTrue(img.attrs.url)
                    THEN img.attrs.url
                    ELSE IF HasAttr(img, "b64_json") /\ IsTrue(img.attrs.b64_json)
                    THEN img.attrs.b64_json
                    ELSE [t |-> "str", s |-> "str(img)", of |-> img]
         IN  <<one>> \o OpenaiResults(Tail(items))

\* generate_image_openai without the check of response.data.
generate_image_openai_unchecked(answer) ==
    IF answer.t = "raise" THEN Raise(answer.exc)
    ELSE Return(OpenaiResults(IF IsTrue(answer.data) THEN answer.data.v ELSE <<>>))

\* _generate_image_openai, given what the SDK call gave.
generate_image_openai(answer) ==
    IF answer.t = "raise" THEN Raise(answer.exc)
    ELSE IF ~IsTrue(answer.data)
    THEN Raise(Exc("Exception", [t |-> "no_data_returned"]))
    ELSE Return(OpenaiResults(answer.data.v))

\* CombinedError with the SDK's exception formatted in both places.
CombinedErrorOpenaiOnly(http_error, openai_error) ==
    Exc("Exception",
        [t |-> "http_and_openai_failed", http |-> openai_error.msg,
         openai |-> openai_error.msg])

\* The except clause of generate_image around the fallback call.
CombinedError(http_error, openai_error) ==
    Exc("Exception",
        [t |-> "http_and_openai_failed", http |-> http_error.msg,
         openai |-> openai_error.msg])

\* [img.<name> for img in response.data]; an object without the attribute
\* raises AttributeError.
AttrList(items, name) ==
    IF \E i \in 1..Len(items) : ~HasAttr(items[i], name)
    THEN Raise(Exc("AttributeError", [t |-> "no_attribute", name |-> name]))
    ELSE Return([i \in 1..Len(items) |-> items[i].attrs[name]])

\* The return expression of edit_image and of create_variation.
UrlsOrB64(data) ==
    IF IsTrue(data) /\ HasAttr(data.v[1], "url") THEN AttrList(data.v, "url")
    ELSE IF IsTrue(data) THEN AttrList(data.v, "b64_json")
    ELSE Return(<<>>)

\* The try statement of edit_image / create_variation: sdk is self.client,
\* answer what the SDK call gave; every exception is wrapped.
SdkImageCall(sdk, answer, wrap) ==
    LET body == IF sdk = None
                THEN Raise(Exc("AttributeError",
                               [t |-> "no_attribute", name |-> "images"]))
                ELSE IF answer.t = "raise" THEN Raise(answer.exc)
                ELSE UrlsOrB64(answer.data)
    IN  IF body.o = "raise"
        THEN Raise(Exc("Exception", [t |-> wrap, cause |-> body.exc.msg]))
        ELSE body

(***************************************************************************)
(* app/image_processor.py: ImageProcessor.download_image, and the writes   *)
(* of the handlers                                                         *)
(***************************************************************************)
\* Path with the uuid4 left out of the name.
PathWithoutUuid(dir, uuid, suffix) == [dir |-> dir, uuid |-> 0, suffix |-> suffix]

\* A path: the directory, the uuid4 the name starts with, and the parts
\* of the name after it.
Path(dir, uuid, suffix) == [dir |-> dir, uuid |-> uuid, suffix |-> suffix]

\* WriteFile that leaves only the file it writes.
WriteFileAlone(fs, path, content) == {[path |-> path, content |-> content]}

\* The file system after `content` is written to `path`.
WriteFile(fs, path, content) ==
    {f \in fs : f.path # path} \cup {[path |-> path, content |-> content]}

\* What opening and writing a file can do: both work, open raises, or the
\* file is opened (created empty) and the write raises.
IoOutcomes == {"ok", "open_fails", "write_fails"}

\* async with aiofiles.open(path, 'wb') as f: await f.write(content)
OpenAndWrite(fs, path, content, io) ==
    CASE io = "ok" -> [o |-> Return(None), fs |-> WriteFile(fs, path, content)]
      [] io = "open_fails" ->
           [o |-> Raise(Exc("OSError", [t |-> "os_error", what |-> "open"])),
            fs |-> fs]
      [] OTHER ->
           [o |-> Raise(Exc("OSError", [t |-> "os_error", what |-> "write"])),
            fs |-> WriteFile(fs, path, Bytes(""))]

\* The body served at each URL, and what a GET can give.
FetchBody(url) == CASE url = "http://x/1.png" -> Bytes("PNG-1")
                    [] OTHER -> Bytes("PNG-2")

FetchAnswers(url) ==
    {Response(200, FetchBody(url)), Response(404, Bytes("")),
     PostRaises(Exc("ConnectTimeout", [t |-> "transport", what |-> "timed out"]))}

\* httpx accepts the argument of client.get as a URL to fetch.
IsHttpUrl(v) == v.t = "str" /\ v.s \in HttpStrings

\* The characters of the base64 texts of this model.
B64Chars(s) ==
    CASE s = GoodB64 -> <<"Q", "U", "J", "D">>
      [] s = BadB64 -> <<"Q", "U", "J", "D", "R">>
      [] s = DirtyB64 -> <<"Q", "U", "J", "D", "!">>
      [] OTHER -> <<"Q">>

\* The characters of the base64 alphabet among those above.
B64Alphabet == {"Q", "U", "J", "D", "R"}

\* The bytes four characters of the alphabet stand for.
B64Quads(chars) == IF chars = <<"Q", "U", "J", "D">> THEN "ABC" ELSE ""

\* base64.b64decode(s) with its default validate=False: the characters
\* outside the alphabet are discarded, then the rest is decoded; a rest
\* whose length is not a multiple of four raises binascii.Error.
B64Decode(v) ==
    LET kept == SelectSeq(B64Chars(v.s), LAMBDA c : c \in B64Alphabet)
    IN  IF Len(kept) % 4 # 0
        THEN Exc("binascii.Error", [t |-> "incorrect_padding"])
        ELSE Bytes(B64Quads(kept))

\* download_image(url, save_path): o is how it ends, fs the files after
\* it, got the argument of client.get when the request was sent.
download_image(fs, url, save_path, answer, io) ==
    LET wrap(e) == Raise(Exc("Exception",
                             [t |-> "download_failed", url |-> url,
                              cause |-> e.msg]))
    IN  IF ~IsHttpUrl(url)
        THEN [o |-> wrap(Exc("UnsupportedProtocol", [t |-> "not_a_url"])),
              fs |-> fs, got |-> <<url>>]
        ELSE IF answer.t = "raise"
        THEN [o |-> wrap(answer.exc), fs |-> fs, got |-> <<url>>]
        ELSE IF answer.status # 200
        THEN [o |-> wrap(Exc("HTTPStatusError",
                             [t |-> "status_error", status |-> answer.status])),
              fs |-> fs, got |-> <<url>>]
        ELSE LET w == OpenAndWrite(fs, save_path, answer.text, io)
             IN  [o |-> IF w.o.o = "raise" THEN wrap(w.o.exc)
                        ELSE Return(save_path),
                  fs |-> w.fs, got |-> <<url>>]

(***************************************************************************)
(* app/main.py: state                                                      *)
(***************************************************************************)
VARIABLES
    environ,          \* the environment: PARALONCLOUD_API_KEY, PARALONCLOUD_API_BASE
    paralon_client,   \* the module-level client, None when initialisation failed
    image_processor,  \* the module-level ImageProcessor, or None
    pc,               \* where the server is: boot, idle, or inside a handler
    req,              \* the request being handled
    last_error,       \* last_error of _generate_image_http
    http_error,       \* http_error of generate_image (the probe's exception)
    posts,            \* the POSTs of the probe so far: endpoint and payload
    post_answer,      \* what the latest POST of the probe gave
    earlier_answers,  \* what the POSTs before the latest one gave (a set)
    last_failed,      \* what the latest POST that failed gave
    sdk_calls,        \* the calls made through the OpenAI SDK client, with what they gave
    client_result,    \* how the client method called by the handler ended
    image_data,       \* the references the client returned to the handler
    saved_paths,      \* saved_paths of the handler
    files,            \* the files on disk
    fetches,          \* the arguments of client.get in download_image
    next_uuid,        \* the next value of uuid.uuid4()
    response,         \* how the handler ended: a returned body or an exception
    served,           \* requests answered so far
    tasks,            \* the handlers that run concurrently, each at an await
    writes            \* the writes of the concurrent handlers: path and writer

vars == <<environ, paralon_client, image_processor, pc, req, last_error,
          http_error, posts, post_answer, earlier_answers, last_failed, sdk_calls, client_result, image_data,
          saved_paths, files, fetches, next_uuid, response, served,
          tasks, writes>>

\* The state of the concurrent handlers.
concurrent == <<tasks, writes>>

\* Handlers that run at the same time on the event loop.
MaxTasks == 2

\* A task that handles no request yet.
NoTask == [ops |-> <<>>, drawn |-> <<>>, started |-> FALSE]

NoRequest == [handler |-> "none"]
\* Nothing yet: no answer, no result, no response.
NoResult == [o |-> "none", t |-> "none"]

OpenAIClient == [t |-> "OpenAI"]

\* The requests the handlers are called with.
GenerateRequests ==
    [handler : {"generate"}, prompt : {"a cat"}, model : {"dall-e-3", "dall-e-2"},
     size : {"1024x1024"}, quality : {"hd"}, n : {1}]

EditRequests ==
    [handler : {"edit"}, image : {"in.png"}, prompt : {"add a hat"},
     mask : {None, Str("mask.png")}, model : {"dall-e-2"},
     size : {"1024x1024"}, n : {1}]

VariationRequests ==
    [handler : {"variation"}, image : {"in.png"}, model : {"dall-e-2"},
     size : {"1024x1024"}, n : {1}]

StyleRequests ==
    [handler : {"style-transfer"}, base_image : {"base.png"},
     style_image : {"style.png"}, alpha : {0, 1}]

Init ==
    /\ environ \in [key : KeyEnvValues, base : BaseEnvValues]
    /\ paralon_client = None
    /\ image_processor = None
    /\ pc = "boot"
    /\ req = NoRequest
    /\ last_error = None
    /\ http_error = None
    /\ posts = <<>>
    /\ post_answer = NoResult
    /\ earlier_answers = {}
    /\ last_failed = NoResult
    /\ sdk_calls = <<>>
    /\ client_result = NoResult
    /\ image_data = <<>>
    /\ saved_paths = <<>>
    /\ files = {}
    /\ fetches = <<>>
    /\ next_uuid = 1
    /\ response = NoResult
    /\ served = 0
    /\ tasks = [t \in 1..MaxTasks |-> NoTask]
    /\ writes = {}

(***************************************************************************)
(* app/paralon_client.py: ParalonClient.__init__; app/main.py: the         *)
(* initialisation of the module-level clients                              *)
(***************************************************************************)
\* ParalonClient(): the new client, or the exception of Config.validate.
\* sdk_ok: the OpenAI constructor did not raise.
NewParalonClient(env, sdk_ok) ==
    LET v == ConfigValidate(Getenv(env.key))
    IN  IF IsExc(v) THEN v
        ELSE [t |-> "ParalonClient",
              api_key |-> Getenv(env.key).s,
              base_url |-> Rstrip(GetenvDefault(env.base, DefaultApiBase).s),
              client |-> IF sdk_ok THEN OpenAIClient ELSE None,
              use_openai_client |-> sdk_ok]

\* try: paralon_client = ParalonClient(); image_processor = ImageProcessor()
\* except Exception: both are None.
InitClients(sdk_ok) ==
    /\ pc = "boot"
    /\ LET c == NewParalonClient(environ, sdk_ok)
       IN  IF IsExc(c)
           THEN paralon_client' = None /\ image_processor' = None
           ELSE paralon_client' = c /\ image_processor' = [t |-> "ImageProcessor"]
    /\ pc' = "idle"
    /\ UNCHANGED <<concurrent, environ, req, last_error, http_error, posts, post_answer,
                   earlier_answers, last_failed, sdk_calls,
                   client_result, image_data, saved_paths, files, fetches,
                   next_uuid, response, served>>

(***************************************************************************)
(* app/main.py: generate_image, with ParalonClient.generate_image          *)
(***************************************************************************)
HTTPException(status_code, detail) ==
    Exc("HTTPException",
        [t |-> "http_exception", status_code |-> status_code, detail |-> detail])

\* CatchGenerate without its `except Exception` clause.
CatchGenerateHTTPOnly(exc) == Raise(exc)

\* The except clauses of the generate handler: an HTTPException is raised
\* again, every other Exception becomes an HTTPException(500).
CatchGenerate(exc) ==
    IF exc.cls = "HTTPException" THEN Raise(exc)
    ELSE Raise(HTTPException(500, [t |-> "error_generating_image",
                                   cause |-> exc.msg]))

\* The except clause of the edit, variation and style-transfer handlers.
CatchAll(exc) == Raise(HTTPException(500, exc.msg))

\* f"/generated/{filename}"
ServedPath(path) == [mount |-> "/generated/", uuid |-> path.uuid, suffix |-> path.suffix]

\* The handler from the return of paralon_client.generate_image (out) to
\* its next await: where it goes, what it holds, how it ended if it did.
GenerateAfterClient(out) ==
    IF out.o = "raise"
    THEN [pc |-> "responded", image_data |-> <<>>,
          response |-> CatchGenerate(out.exc)]
    ELSE IF out.v = <<>>
    THEN [pc |-> "responded", image_data |-> out.v,
          response |-> CatchGenerate(HTTPException(500, [t |-> "no_images_returned"]))]
    ELSE [pc |-> "persist", image_data |-> out.v, response |-> NoResult]

\* AfterHttp with the fallback awaited after a result as well.
AfterHttpAlwaysFallback(http, client) ==
    IF client.use_openai_client /\ client.client # None
    THEN [o |-> "fallback", exc |-> Exc("Exception", None)]
    ELSE http

\* generate_image of the client once _generate_image_http has ended with
\* `http`: the result is returned; after an exception the SDK fallback is
\* awaited if the client has one, else the exception is raised again.
AfterHttp(http, client) ==
    IF http.o = "return" THEN http
    ELSE IF client.use_openai_client /\ client.client # None
    THEN [o |-> "fallback", exc |-> http.exc]
    ELSE Raise(http.exc)

\* POST /api/generate up to the first POST of the probe.
GenerateStart(r) ==
    /\ pc = "idle"
    /\ served < MaxRequests
    /\ req' = r
    /\ IF paralon_client = None
       THEN /\ pc' = "responded"
            /\ response' = Raise(HTTPException(500, [t |-> "client_not_initialized"]))
       ELSE /\ pc' = "probe"
            /\ response' = NoResult
    /\ last_error' = None
    /\ UNCHANGED <<concurrent, environ, paralon_client, image_processor, http_error, posts,
                   post_answer, earlier_answers, last_failed, sdk_calls, client_result, image_data, saved_paths, files,
                   fetches, next_uuid, served>>

\* A POST failed: no response came, the status is not 200, or the body of
\* the 200 is not JSON.
PostFailed(a) ==
    \/ a.t = "raise"
    \/ a.status # 200
    \/ IsExc(ResponseJson(a.text))
    \/ NormalizeImages(ResponseJson(a.text)).o = "raise"

\* One POST of the probe loop with the answer it gets, up to the next
\* await: the next POST, the fallback call, or the handler's first save.
ProbePost(a) ==
    /\ pc = "probe"
    /\ \E i \in {Len(posts) + 1} :
       \E endpoint \in {Endpoints(paralon_client.base_url)[i]} :
       \E it \in {Iteration(a, endpoint, last_error)} :
       \E http \in {IF it.o = "continue"
                   THEN IF i < NumCandidates THEN [o |-> "next"]
                        ELSE Raise(AllFailed(it.last_error, paralon_client.base_url))
                   ELSE it} :
       \E out \in {IF http.o = "next" THEN http ELSE AfterHttp(http, paralon_client)} :
           /\ posts' = Append(posts, [endpoint |-> endpoint, payload |-> Payload(req)])
           /\ post_answer' = a
           /\ earlier_answers' = IF posts = <<>> THEN {} ELSE earlier_answers \cup {post_answer}
           /\ last_failed' = IF PostFailed(a) THEN a
                             ELSE last_failed
           /\ last_error' = IF it.o = "continue" THEN it.last_error ELSE last_error
           /\ http_error' = IF http.o = "raise" THEN http.exc ELSE http_error
           /\ IF out.o \in {"next", "fallback"}
              THEN /\ pc' = IF out.o = "next" THEN "probe" ELSE "fallback"
                   /\ UNCHANGED <<client_result, image_data, response>>
              ELSE /\ client_result' = out
                   /\ pc' = GenerateAfterClient(out).pc
                   /\ image_data' = GenerateAfterClient(out).image_data
                   /\ response' = GenerateAfterClient(out).response
    /\ UNCHANGED <<concurrent, environ, paralon_client, image_processor, req, sdk_calls,
                   saved_paths, files, fetches, next_uuid, served>>

\* The one call of _generate_image_openai, with what the SDK gives.
FallbackCall(answer) ==
    /\ pc = "fallback"
    /\ sdk_calls' = Append(sdk_calls, [method |-> "images.generate",
                                       args |-> GenerateArgs(req),
                                       answer |-> answer])
    /\ \E sdk \in {generate_image_openai(answer)} :
       \E out \in {IF sdk.o = "raise"
                  THEN Raise(CombinedError(http_error, sdk.exc))
                  ELSE sdk} :
           /\ client_result' = out
           /\ pc' = GenerateAfterClient(out).pc
           /\ image_data' = GenerateAfterClient(out).image_data
           /\ response' = GenerateAfterClient(out).response
    /\ UNCHANGED <<concurrent, environ, paralon_client, image_processor, req, last_error,
                   http_error, posts, post_answer, earlier_answers, last_failed,
                   saved_paths, files, fetches, next_uuid,
                   served>>

\* The body of the handler's loop for one reference: a URL is downloaded,
\* any other str is decoded as base64 and written, anything else is
\* written as bytes.
SaveGenerated(fs, img_data, save_path, answer, io) ==
    IF img_data.t = "str"
    THEN IF img_data.s \in HttpStrings
         THEN download_image(fs, img_data, save_path, answer, io)
         ELSE LET image_bytes == B64Decode(img_data)
                  w == OpenAndWrite(fs, save_path, image_bytes, io)
                  failed(e) == Raise(HTTPException(500,
                                   [t |-> "error_processing_image", cause |-> e.msg]))
              IN  IF IsExc(image_bytes)
                  THEN [o |-> failed(image_bytes), fs |-> fs, got |-> <<>>]
                  ELSE [o |-> IF w.o.o = "raise" THEN failed(w.o.exc) ELSE w.o,
                        fs |-> w.fs, got |-> <<>>]
    ELSE LET content == IF img_data.t = "bytes" THEN img_data
                        ELSE [t |-> "bytes", s |-> "str(img_data).encode()",
                              of |-> img_data]
             w == OpenAndWrite(fs, save_path, content, io)
         IN  [o |-> w.o, fs |-> w.fs, got |-> <<>>]

\* The answers a save of `ref` can meet: those of the GET when it is a URL.
AnswersFor(ref) == IF IsHttpUrl(ref) THEN FetchAnswers(ref.s) ELSE {NoResult}

\* The handler goes on after paralon_client.generate_image: the locals of
\* the client call, and what was seen of its remote calls, are gone.
ClientCallOver ==
    /\ last_error' = None
    /\ http_error' = None
    /\ posts' = <<>>
    /\ post_answer' = NoResult
    /\ earlier_answers' = {}
    /\ last_failed' = NoResult
    /\ sdk_calls' = <<>>

\* One iteration of the generate handler's loop; after the last one the
\* handler returns its body.
PersistGenerate(answer, io) ==
    /\ pc = "persist"
    /\ req.handler = "generate"
    /\ answer \in AnswersFor(image_data[Len(saved_paths) + 1])
    /\ \E k \in {Len(saved_paths) + 1} :
       \E save_path \in {Path("generated", next_uuid, <<".png">>)} :
       \E step \in {SaveGenerated(files, image_data[k], save_path, answer, io)} :
       \E paths \in {Append(saved_paths, ServedPath(save_path))} :
           /\ next_uuid' = next_uuid + 1
           /\ files' = step.fs
           /\ fetches' = fetches \o step.got
           /\ IF step.o.o = "raise"
              THEN /\ response' = CatchGenerate(step.o.exc)
                   /\ pc' = "responded"
                   /\ UNCHANGED saved_paths
              ELSE /\ saved_paths' = paths
                   /\ IF k = Len(image_data)
                      THEN /\ response' = Return([success |-> TRUE, images |-> paths,
                                                  data |-> SubSeq(image_data, 1, 1)])
                           /\ pc' = "responded"
                      ELSE /\ pc' = "persist"
                           /\ UNCHANGED response
    /\ ClientCallOver
    /\ UNCHANGED <<concurrent, environ, paralon_client, image_processor, req,
                   client_result, image_data, served>>

(***************************************************************************)
(* app/main.py: edit_image, create_variation, style_transfer               *)
(***************************************************************************)
\* The uploads a handler saves first, in order: <<suffix, content>> each,
\* every one under a fresh uuid4, with the outcome of its write. The
\* first write that raises ends the sequence.
RECURSIVE SaveUploads(_, _, _, _)
SaveUploads(fs, uuid, uploads, ios) ==
    IF uploads = <<>> THEN [o |-> Return(<<>>), fs |-> fs, uuid |-> uuid]
    ELSE LET path == Path("uploads", uuid, <<"_", uploads[1][1]>>)
             w == OpenAndWrite(fs, path, uploads[1][2], ios[1])
         IN  IF w.o.o = "raise" THEN [o |-> w.o, fs |-> w.fs, uuid |-> uuid + 1]
             ELSE LET rest == SaveUploads(w.fs, uuid + 1, Tail(uploads), Tail(ios))
                  IN  [o |-> IF rest.o.o = "raise" THEN rest.o
                             ELSE Return(<<path>> \o rest.o.v),
                       fs |-> rest.fs, uuid |-> rest.uuid]

\* The uploads of an edit request (the mask when there is one) and of a
\* variation request.
UploadsOf(r) ==
    IF r.handler = "edit"
    THEN <<<<r.image, Bytes("image upload")>>>>
         \o (IF r.mask = None THEN <<>> ELSE <<<<r.mask.s, Bytes("mask upload")>>>>)
    ELSE <<<<r.image, Bytes("image upload")>>>>

\* POST /api/edit and POST /api/variation up to the SDK call of the client
\* method: the uploads are saved, then the method of paralon_client is
\* looked up (AttributeError when paralon_client is None).
UploadStart(r, ios) ==
    /\ pc = "idle"
    /\ served < MaxRequests
    /\ req' = r
    /\ LET up == SaveUploads(files, next_uuid, UploadsOf(r), ios)
           method == IF r.handler = "edit" THEN "edit_image" ELSE "create_variation"
           out == IF up.o.o = "raise" THEN CatchAll(up.o.exc)
                  ELSE IF paralon_client = None
                  THEN CatchAll(Exc("AttributeError",
                                    [t |-> "no_attribute", name |-> method]))
                  ELSE NoResult
       IN  /\ files' = up.fs
           /\ next_uuid' = up.uuid
           /\ response' = out
           /\ pc' = IF out = NoResult THEN "sdk_call" ELSE "responded"
    /\ UNCHANGED <<concurrent, environ, paralon_client, image_processor, last_error,
                   http_error, posts, post_answer,
                   earlier_answers, last_failed, sdk_calls, client_result, image_data,
                   saved_paths, fetches, served>>

\* The arguments of self.client.images.edit / images.create_variation.
SdkCallOf(r, answer) ==
    IF r.handler = "edit"
    THEN [method |-> "images.edit",
          args |-> [model |-> r.model, prompt |-> r.prompt, mask |-> r.mask,
                    size |-> r.size, n |-> r.n],
          answer |-> answer]
    ELSE [method |-> "images.create_variation",
          args |-> [model |-> r.model, size |-> r.size, n |-> r.n],
          answer |-> answer]

\* edit_image / create_variation of the client with what the SDK gives,
\* and the handler up to its first download.
SdkCall(answer) ==
    /\ pc = "sdk_call"
    /\ LET wrap == IF req.handler = "edit" THEN "error_editing_image"
                   ELSE "error_creating_image_variation"
           out == SdkImageCall(paralon_client.client, answer, wrap)
       IN  /\ sdk_calls' = IF paralon_client.client = None THEN sdk_calls
                           ELSE Append(sdk_calls, SdkCallOf(req, answer))
           /\ client_result' = out
           /\ IF out.o = "raise"
              THEN /\ response' = CatchAll(out.exc)
                   /\ pc' = "responded"
                   /\ UNCHANGED image_data
              ELSE /\ image_data' = out.v
                   /\ IF out.v = <<>>
                      THEN /\ response' = Return([success |-> TRUE, images |-> <<>>,
                                                  urls |-> out.v])
                           /\ pc' = "responded"
                      ELSE /\ pc' = "persist"
                           /\ UNCHANGED response
    /\ UNCHANGED <<concurrent, environ, paralon_client, image_processor, req, last_error,
                   http_error, posts, post_answer, earlier_answers, last_failed,
                   saved_paths, files, fetches, next_uuid,
                   served>>

\* One iteration of the loop of the edit and variation handlers: every
\* reference goes to download_image.
PersistDownload(answer, io) ==
    /\ pc = "persist"
    /\ req.handler \in {"edit", "variation"}
    /\ answer \in AnswersFor(image_data[Len(saved_paths) + 1])
    /\ \E k \in {Len(saved_paths) + 1} :
       \E save_path \in {Path("generated", next_uuid, <<".png">>)} :
       \E step \in {download_image(files, image_data[k], save_path, answer, io)} :
       \E paths \in {Append(saved_paths, ServedPath(save_path))} :
           /\ next_uuid' = next_uuid + 1
           /\ files' = step.fs
           /\ fetches' = fetches \o step.got
           /\ IF step.o.o = "raise"
              THEN /\ response' = CatchAll(step.o.exc)
                   /\ pc' = "responded"
                   /\ UNCHANGED saved_paths
              ELSE /\ saved_paths' = paths
                   /\ IF k = Len(image_data)
                      THEN /\ response' = Return([success |-> TRUE, images |-> paths,
                                                  urls |-> image_data])
                           /\ pc' = "responded"
                      ELSE /\ pc' = "persist"
                           /\ UNCHANGED response
    /\ UNCHANGED <<concurrent, environ, paralon_client, image_processor, req, last_error,
                   http_error, posts, post_answer,
                   earlier_answers, last_failed, sdk_calls, client_result, image_data,
                   served>>

\* What apply_style_transfer can do with the two uploads: blend them, or
\* fail to read one as an image.
BlendOutcomes == {"ok", "cannot_identify_image"}

\* POST /api/style-transfer: the two uploads are saved, then the blend is
\* written under a third uuid4.
StyleTransfer(r, ios, blend, io) ==
    /\ pc = "idle"
    /\ served < MaxRequests
    /\ req' = r
    /\ LET up == SaveUploads(files, next_uuid,
                             <<<<r.base_image, Bytes("base upload")>>,
                               <<r.style_image, Bytes("style upload")>>>>, ios)
           output_path == Path("generated", up.uuid, <<".png">>)
           w == OpenAndWrite(up.fs, output_path,
                             [t |-> "bytes", s |-> "blend", alpha |-> r.alpha], io)
           done == up.o.o = "return" /\ image_processor # None /\ blend = "ok"
       IN  /\ files' = IF done THEN w.fs ELSE up.fs
           /\ next_uuid' = IF up.o.o = "return" THEN up.uuid + 1 ELSE up.uuid
           /\ response' =
                IF up.o.o = "raise" THEN CatchAll(up.o.exc)
                ELSE IF image_processor = None
                THEN CatchAll(Exc("AttributeError",
                                  [t |-> "no_attribute", name |-> "apply_style_transfer"]))
                ELSE IF blend # "ok"
                THEN CatchAll(Exc("UnidentifiedImageError", [t |-> blend]))
                ELSE IF w.o.o = "raise" THEN CatchAll(w.o.exc)
                ELSE Return([success |-> TRUE, image |-> ServedPath(output_path)])
    /\ pc' = "responded"
    /\ UNCHANGED <<concurrent, environ, paralon_client, image_processor, last_error,
                   http_error, posts, post_answer,
                   earlier_answers, last_failed, sdk_calls, client_result, image_data,
                   saved_paths, fetches, served>>

\* The response goes out and the server waits for the next request; the
\* locals of the handler are gone.
Finish ==
    /\ pc = "responded"
    /\ pc' = "idle"
    /\ served' = served + 1
    /\ req' = NoRequest
    /\ ClientCallOver
    /\ client_result' = NoResult
    /\ image_data' = <<>>
    /\ saved_paths' = <<>>
    /\ fetches' = <<>>
    /\ response' = NoResult
    /\ UNCHANGED <<concurrent, environ, paralon_client, image_processor, files, next_uuid>>

AllFetchAnswers == UNION {FetchAnswers(u) : u \in HttpStrings} \cup {NoResult}

Next ==
    \/ \E sdk_ok \in BOOLEAN : InitClients(sdk_ok)
    \/ \E r \in GenerateRequests : GenerateStart(r)
    \/ \E a \in ProbeAnswers : ProbePost(a)
    \/ \E answer \in SdkAnswers : FallbackCall(answer)
    \/ \E answer \in AllFetchAnswers, io \in IoOutcomes : PersistGenerate(answer, io)
    \/ \E r \in EditRequests \cup VariationRequests :
          \E ios \in [1..2 -> IoOutcomes] : UploadStart(r, ios)
    \/ \E answer \in SdkAnswers : SdkCall(answer)
    \/ \E answer \in AllFetchAnswers, io \in IoOutcomes : PersistDownload(answer, io)
    \/ \E r \in StyleRequests :
          \E ios \in [1..2 -> IoOutcomes], blend \in BlendOutcomes, io \in IoOutcomes :
             StyleTransfer(r, ios, blend, io)
    \/ Finish

Spec == Init /\ [][Next]_vars

(***************************************************************************)
(* app/main.py: the handlers running concurrently. A handler gives up the  *)
(* event loop at every await, so between the uuid4 drawn for a file name   *)
(* and the write to that file other handlers run. uuid.uuid4() is the next *)
(* value of a counter: a value no earlier call gave.                       *)
(***************************************************************************)
\* The steps of a handler that name or write a file, in program order:
\* a file name is built from a fresh uuid4, a file is written under the
\* k-th name built.
DrawOp(dir, suffix) == [op |-> "draw", dir |-> dir, suffix |-> suffix, k |-> 0]
WriteOp(k) == [op |-> "write", dir |-> "", suffix |-> <<>>, k |-> k]

\* The requests of the concurrent handlers; refs is the number of
\* references the client returns.
ConcurrentRequests ==
    {[handler |-> "generate", image |-> "", mask |-> None, refs |-> 2],
     [handler |-> "edit", image |-> "in.png", mask |-> Str("in.png"), refs |-> 1],
     [handler |-> "variation", image |-> "in.png", mask |-> None, refs |-> 1],
     [handler |-> "style-transfer", image |-> "in.png", mask |-> None, refs |-> 0]}

\* The loop that saves the references: a name and a write for each; `before`
\* is the number of names the handler built before the loop.
RECURSIVE SaveLoopOps(_, _)
SaveLoopOps(refs, before) ==
    IF refs = 0 THEN <<>>
    ELSE <<DrawOp("generated", <<".png">>), WriteOp(before + 1)>>
         \o SaveLoopOps(refs - 1, before + 1)

HandlerOps(r) ==
    CASE r.handler = "generate" -> SaveLoopOps(r.refs, 0)
      [] r.handler = "edit" ->
           <<DrawOp("uploads", <<"_", r.image>>), WriteOp(1)>>
           \o (IF r.mask = None THEN SaveLoopOps(r.refs, 1)
               ELSE <<DrawOp("uploads", <<"_", r.mask.s>>), WriteOp(2)>>
                    \o SaveLoopOps(r.refs, 2))
      [] r.handler = "variation" ->
           <<DrawOp("uploads", <<"_", r.image>>), WriteOp(1)>>
           \o SaveLoopOps(r.refs, 1)
      [] OTHER ->
           <<DrawOp("uploads", <<"_", r.image>>),
             DrawOp("uploads", <<"_", r.image>>),
             WriteOp(1), WriteOp(2),
             DrawOp("generated", <<".png">>), WriteOp(3)>>

\* A request arrives and its handler starts.
\* The handlers of the other requests touch nothing of the request in the
\* main specification.
RequestState ==
    <<environ, paralon_client, image_processor, pc, req, last_error,
      http_error, posts, post_answer, earlier_answers, last_failed, sdk_calls,
      client_result, image_data, saved_paths, fetches, response, served>>

TaskStart(t, r) ==
    /\ ~tasks[t].started
    /\ tasks' = [tasks EXCEPT ![t] = [ops |-> HandlerOps(r), drawn |-> <<>>,
                                      started |-> TRUE]]
    /\ UNCHANGED <<writes, files, next_uuid, RequestState>>

\* filename = f"{uuid.uuid4()}..."; path = os.path.join(dir, filename)
TaskDraw(t) ==
    /\ tasks[t].ops # <<>>
    /\ Head(tasks[t].ops).op = "draw"
    /\ LET op == Head(tasks[t].ops)
       IN  tasks' = [tasks EXCEPT
                        ![t].ops = Tail(@),
                        ![t].drawn = Append(@, Path(op.dir, next_uuid, op.suffix))]
    /\ next_uuid' = next_uuid + 1
    /\ UNCHANGED <<writes, files, RequestState>>

\* The file of the k-th name is opened and written; an exception ends the
\* handler.
TaskWrite(t, io) ==
    /\ tasks[t].ops # <<>>
    /\ Head(tasks[t].ops).op = "write"
    /\ LET k == Head(tasks[t].ops).k
           path == tasks[t].drawn[k]
           w == OpenAndWrite(files, path, Bytes("content"), io)
       IN  /\ files' = w.fs
           /\ writes' = writes \cup {[path |-> path, by |-> <<t, k>>]}
           /\ tasks' = [tasks EXCEPT
                           ![t].ops = IF w.o.o = "raise" THEN <<>> ELSE Tail(@)]
    /\ UNCHANGED <<next_uuid, RequestState>>

InitConcurrent ==
    /\ environ = [key |-> "sk-key", base |-> "http://api/"]
    /\ paralon_client = NewParalonClient(environ, TRUE)
    /\ image_processor = [t |-> "ImageProcessor"]
    /\ pc = "idle"
    /\ req = NoRequest
    /\ last_error = None
    /\ http_error = None
    /\ posts = <<>>
    /\ post_answer = NoResult
    /\ earlier_answers = {}
    /\ last_failed = NoResult
    /\ sdk_calls = <<>>
    /\ client_result = NoResult
    /\ image_data = <<>>
    /\ saved_paths = <<>>
    /\ files = {}
    /\ fetches = <<>>
    /\ next_uuid = 1
    /\ response = NoResult
    /\ served = 0
    /\ tasks = [t \in 1..MaxTasks |-> NoTask]
    /\ writes = {}

NextConcurrent ==
    \/ \E t \in 1..MaxTasks, r \in ConcurrentRequests : TaskStart(t, r)
    \/ \E t \in 1..MaxTasks : TaskDraw(t)
    \/ \E t \in 1..MaxTasks, io \in IoOutcomes : TaskWrite(t, io)

SpecConcurrent == InitConcurrent /\ [][NextConcurrent]_vars

(***************************************************************************)
(* app/image_processor.py: ImageProcessor.apply_style_transfer             *)
(***************************************************************************)
\* The largest value of a channel (np.clip(blended, 0, 255), uint8).
MaxChannel == 255

\* The channel values the images of this model are made of.
ChannelValues == {0, 100, MaxChannel}

\* An RGB image: its size and its channel values, pixel after pixel.
RGBImage(size, px) == [t |-> "image", size |-> size, px |-> px]

\* The images of one pixel, and some of two pixels.
SmallImages == {RGBImage(<<1, 1>>, px) : px \in [1..3 -> ChannelValues]}
WideImages == {RGBImage(<<2, 1>>, [i \in 1..6 |-> v]) : v \in ChannelValues}

\* The mix factors: the quarters from 0 to 1, as fractions. These and
\* their products with a channel value are exact in float32.
Alphas == [num : 0..4, den : {4}]

\* style_img.resize(base_img.size, LANCZOS): an image that has the size
\* already is copied; any other is resampled to some image of that size.
ResizeOutcomes(img, size) ==
    IF img.size = size THEN {img}
    ELSE {RGBImage(size, px) : px \in [1..(3 * size[1] * size[2]) -> ChannelValues]}

\* BlendChannel with the two weights exchanged.
BlendChannelSwapped(b, s, alpha) ==
    LET numer == alpha.num * b + (alpha.den - alpha.num) * s
        lo == IF numer < 0 THEN 0 ELSE numer
        clipped == IF lo > MaxChannel * alpha.den THEN MaxChannel * alpha.den ELSE lo
    IN  clipped \div alpha.den

\* One channel of np.clip((1 - alpha) * base + alpha * style, 0, 255)
\* .astype(np.uint8): the sum as a fraction over alpha.den, clipped, and
\* cut to its integer part.
BlendChannel(b, s, alpha) ==
    LET numer == (alpha.den - alpha.num) * b + alpha.num * s
        lo == IF numer < 0 THEN 0 ELSE numer
        clipped == IF lo > MaxChannel * alpha.den THEN MaxChannel * alpha.den ELSE lo
    IN  clipped \div alpha.den

\* The blended image of a base image and a style image of the same size.
Blend(base_img, style_img, alpha) ==
    RGBImage(base_img.size,
             [i \in 1..Len(base_img.px) |->
                 BlendChannel(base_img.px[i], style_img.px[i], alpha)])

\* The paths of a style-transfer request that is the first of the server.
BasePath == Path("uploads", 1, <<"_", "base.png">>)
StylePath == Path("uploads", 2, <<"_", "style.png">>)
OutputPath == Path("generated", 3, <<".png">>)

\* The file at a path.
FileAt(fs, path) == CHOOSE f \in fs : f.path = path

\* apply_style_transfer(base_path, style_path, output_path, alpha): the two
\* files are opened, the style image is resized to the base image's size,
\* the blend is saved.
ApplyStyleTransfer ==
    /\ pc = "persist"
    /\ req.handler = "style-transfer"
    /\ LET base_img == FileAt(files, BasePath).content
           style_img == FileAt(files, StylePath).content
       IN  \E resized \in ResizeOutcomes(style_img, base_img.size) :
              files' = WriteFile(files, OutputPath, Blend(base_img, resized, req.alpha))
    /\ pc' = "responded"
    /\ response' = Return([success |-> TRUE, image |-> ServedPath(OutputPath)])
    /\ next_uuid' = next_uuid + 1
    /\ UNCHANGED <<concurrent, environ, paralon_client, image_processor, req,
                   last_error, http_error, posts, post_answer, earlier_answers,
                   last_failed, sdk_calls, client_result, image_data,
                   saved_paths, fetches, served>>

\* The style-transfer handler has saved its two uploads and is about to
\* call apply_style_transfer.
InitBlend ==
    /\ environ = [key |-> "sk-key", base |-> "http://api/"]
    /\ paralon_client = NewParalonClient(environ, TRUE)
    /\ image_processor = [t |-> "ImageProcessor"]
    /\ pc = "persist"
    /\ req \in [handler : {"style-transfer"}, base_image : {"base.png"},
                 style_image : {"style.png"}, alpha : Alphas]
    /\ \E base_img \in SmallImages, style_img \in SmallImages \cup WideImages :
          files = {[path |-> BasePath, content |-> base_img],
                   [path |-> StylePath, content |-> style_img]}
    /\ next_uuid = 3
    /\ last_error = None
    /\ http_error = None
    /\ posts = <<>>
    /\ post_answer = NoResult
    /\ earlier_answers = {}
    /\ last_failed = NoResult
    /\ sdk_calls = <<>>
    /\ client_result = NoResult
    /\ image_data = <<>>
    /\ saved_paths = <<>>
    /\ fetches = <<>>
    /\ response = NoResult
    /\ served = 0
    /\ tasks = [t \in 1..MaxTasks |-> NoTask]
    /\ writes = {}

NextBlend == ApplyStyleTransfer

SpecBlend == InitBlend /\ [][NextBlend]_vars

(***************************************************************************)
(* app/paralon_client.py: the normalization of a parsed 200 body           *)
(***************************************************************************)
\* The objects of a `data` array.
DataItems ==
    {Dict([url |-> Str("http://x/1.png")]),
     Dict([b64_json |-> Str(GoodB64)]),
     Dict([url |-> Str("https://x/2.png"), b64_json |-> Str(GoodB64)]),
     Dict([id |-> Str("7")])}

\* The `data` arrays of up to two objects, and an `images` array.
DataArrays == {List(q) : q \in {<<>>} \cup [1..1 -> DataItems] \cup [1..2 -> DataItems]}
ImagesArrays == {List(<<Str("https://x/2.png")>>)}

\* A body that is an object with the given keys.
DictBody(keys, d, i) ==
    Dict([k \in keys |-> CASE k = "data" -> d
                           [] k = "images" -> i
                           [] OTHER -> PyInt(1700000000)])

\* The values response.json() returns: objects, arrays, strings, a
\* number and null.
JsonBodies ==
    {DictBody(keys, d, i) : keys \in SUBSET {"data", "images", "created"},
                            d \in DataArrays, i \in ImagesArrays}
    \cup {List(<<>>), List(<<Str("http://x/1.png")>>), List(<<Str("data")>>),
          List(<<Str("images"), Str("http://x/1.png")>>)}
    \cup {Str("ok"), Str("no data"), PyInt(5), None}

\* A 200 came from a candidate and response.json() returned `body`.
InitNormalize ==
    /\ environ = [key |-> "sk-key", base |-> "http://api/"]
    /\ paralon_client = NewParalonClient(environ, TRUE)
    /\ image_processor = [t |-> "ImageProcessor"]
    /\ pc = "normalize"
    /\ req \in {r \in GenerateRequests : r.model = "dall-e-3"}
    /\ \E body \in JsonBodies : post_answer = [t |-> "json", status |-> 200, data |-> body]
    /\ last_error = None
    /\ http_error = None
    /\ posts = <<>>
    /\ earlier_answers = {}
    /\ last_failed = NoResult
    /\ sdk_calls = <<>>
    /\ client_result = NoResult
    /\ image_data = <<>>
    /\ saved_paths = <<>>
    /\ files = {}
    /\ fetches = <<>>
    /\ next_uuid = 1
    /\ response = NoResult
    /\ served = 0
    /\ tasks = [t \in 1..MaxTasks |-> NoTask]
    /\ writes = {}

\* The statements from `images = []` to `if images:`, on the parsed body.
NormalizeBody ==
    /\ pc = "normalize"
    /\ client_result' = NormalizeImages(post_answer.data)
    /\ pc' = "normalized"
    /\ UNCHANGED <<concurrent, environ, paralon_client, image_processor, req,
                   last_error, http_error, posts, post_answer, earlier_answers,
                   last_failed, sdk_calls, image_data, saved_paths, files,
                   fetches, next_uuid, response, served>>

NextNormalize == NormalizeBody

SpecNormalize == InitNormalize /\ [][NextNormalize]_vars

(***************************************************************************)
(* Properties                                                              *)
(***************************************************************************)
\* The answers with a given status.
WithStatus(st) == {a \in ProbeAnswers : a.t = "response" /\ a.status = st}

\* A 200 whose body gives a non-empty image list.
Successful(a) ==
    /\ a.t = "response" /\ a.status = 200
    /\ ~IsExc(ResponseJson(a.text))
    /\ NormalizeImages(ResponseJson(a.text)).o = "return"
    /\ NormalizeImages(ResponseJson(a.text)).v # <<>>

\* The POSTs so far went to the first candidates, one each, in list order.
PostsInOrder ==
    /\ Len(posts) <= NumCandidates
    /\ \A j \in 1..Len(posts) :
          posts[j].endpoint = [base |-> paralon_client.base_url,
                               path |-> EndpointPaths[j]]

\* C1: for every k in 0..4, when the first k candidates answered 404 and
\* candidate k+1 answered 200 with a non-empty normalized list L, generate
\* has returned exactly L after exactly k+1 POSTs, one per candidate in the
\* candidate order, and no further POST or SDK call is made or pending.
C1_FirstSuccessIsReturned ==
    \A k \in 0..(NumCandidates - 1) :
        ( /\ Len(posts) = k + 1
          /\ earlier_answers \subseteq WithStatus(404)
          /\ Successful(post_answer) )
        => /\ client_result = NormalizeImages(ResponseJson(post_answer.text))
           /\ post_answer.text = TextDataUrl
                => client_result.v = <<Str("http://x/1.png")>>
           /\ PostsInOrder
           /\ sdk_calls = <<>>
           /\ pc \notin {"probe", "fallback"}

\* C1: four 404 and then the 200 of the example: five POSTs, its URL returned.
C1_Witness ==
    /\ Len(posts) = 5
    /\ earlier_answers = WithStatus(404)
    /\ post_answer = Response(200, TextDataUrl)
    /\ client_result = Return(<<Str("http://x/1.png")>>)

\* An answer with a status other than 200 and 404.
OtherStatus(a) == a.t = "response" /\ a.status \notin {200, 404}

\* C2: when a candidate answers with a status other than 200 or 404, the
\* probe loop ends at that candidate: no later candidate is POSTed, and
\* the probe has failed with an error that embeds that status and body.
C2_OtherStatusAbortsProbe ==
    ( /\ req.handler = "generate"
      /\ \A a \in earlier_answers : ~OtherStatus(a)
      /\ OtherStatus(post_answer) )
         => /\ pc # "probe"
            /\ http_error # None
            /\ http_error.msg.status = post_answer.status
            /\ http_error.msg.text = post_answer.text

\* The kind of an error: the class of the exception.
ErrorKind(exc) == exc.cls

\* Every candidate of the scan was POSTed and answered with status st.
AllAnswered(st) ==
    /\ Len(posts) = NumCandidates
    /\ post_answer \in WithStatus(st)
    /\ earlier_answers \subseteq WithStatus(st)

\* C3: when every candidate answered 401, generate fails with an error
\* whose kind differs from the kind of the error of a scan in which every
\* candidate answered 404.
C3_AuthErrorDistinguishable ==
    (AllAnswered(401) /\ client_result # NoResult)
    => /\ client_result.o = "raise"
       /\ ErrorKind(client_result.exc)
            # ErrorKind(AllFailed(None, paralon_client.base_url))

\* The configuration lacks the API key or the API base URL.
ConfigMissing == environ.key = Absent \/ environ.base = Absent

\* C4: when the API key or the API base URL is absent from the
\* configuration, initialisation fails and no request is served: no handler
\* is ever at work, and a request that came in was only rejected, nothing
\* written and nothing sent.
C4_NoRequestServedWithoutConfig ==
    ConfigMissing
    => /\ pc # "boot" => paralon_client = None
       /\ pc \in {"boot", "idle", "responded"}
       /\ pc = "responded"
            => /\ response.o = "raise"
               /\ files = {}
               /\ posts = <<>>
               /\ sdk_calls = <<>>

\* The rejection of a request when the client was not initialised.
NotInitialized == Raise(HTTPException(500, [t |-> "client_not_initialized"]))

\* C5: when client initialisation failed, a generate, edit or variation
\* request is rejected before anything else is done, with the same failure
\* for all three: no file is written, no uuid drawn, no client method
\* called.
C5_UniformRejectionFirst ==
    [][ ( /\ paralon_client = None
          /\ pc = "idle"
          /\ req'.handler \in {"generate", "edit", "variation"} )
        => /\ pc' = "responded"
           /\ response' = NotInitialized
           /\ files' = files
           /\ next_uuid' = next_uuid
           /\ posts' = <<>>
           /\ sdk_calls' = <<>> ]_vars

\* The handler has ended with a body, or with the HTTPException that the
\* framework turns into a failure response.
Answered ==
    \/ response.o = "return"
    \/ /\ response.o = "raise"
       /\ response.exc.cls = "HTTPException"
       /\ response.exc.msg.status_code = 500

\* C6: every failure met while a request is handled ends in a failure
\* response: a handler that has ended has ended with a body or with an
\* HTTPException, a failed client call or an uninitialised client never
\* ends in a success body, and after the response the server is idle
\* again with its clients as they were.
C6_EveryFailureAnswered ==
    [][ /\ pc' = "responded" => Answered'
        /\ pc' # "responded" => response' = NoResult
        /\ client_result'.o = "raise" => (pc' = "responded" /\ response'.o = "raise")
        /\ pc = "idle" /\ pc' # "idle" /\ req'.handler # "style-transfer"
             /\ paralon_client = None
             => (pc' = "responded" /\ response'.o = "raise")
        /\ pc = "responded"
             => /\ pc' = "idle"
                /\ paralon_client' = paralon_client
                /\ image_processor' = image_processor ]_vars

\* C6: a generate request whose client call failed (probe and fallback)
\* has been answered with a failure response.
C6_Witness ==
    /\ pc = "responded"
    /\ req.handler = "generate"
    /\ client_result.o = "raise"
    /\ client_result.exc.msg.t = "http_and_openai_failed"
    /\ response.o = "raise"
    /\ response.exc.cls = "HTTPException"

\* The reference the fallback takes from one object of the SDK response.
OneOf(img, ref) ==
    \/ HasAttr(img, "url") /\ ref = img.attrs.url
    \/ HasAttr(img, "b64_json") /\ ref = img.attrs.b64_json
    \/ ref.t = "str" /\ ref.s = "str(img)"

\* C7: generate calls the SDK fallback only after the probe has failed as
\* a whole, and at most once; the images of the fallback are the result of
\* generate; when the fallback fails too the error names both the probe's
\* and the fallback's cause; without a fallback client the probe's error
\* is raised unchanged.
C7_FallbackAfterProbe ==
    req.handler = "generate"
    => /\ Len(sdk_calls) <= 1
       /\ pc = "fallback" => (http_error # None /\ sdk_calls = <<>>)
       /\ pc = "probe" => (http_error = None /\ sdk_calls = <<>>)
       /\ sdk_calls # <<>>
            => /\ http_error # None
               /\ paralon_client.use_openai_client
               /\ LET a == sdk_calls[1].answer
                  IN  IF a.t = "sdk_response" /\ IsTrue(a.data)
                      THEN /\ client_result.o = "return"
                           /\ Len(client_result.v) = Len(a.data.v)
                           /\ \A i \in 1..Len(a.data.v) :
                                 OneOf(a.data.v[i], client_result.v[i])
                      ELSE /\ client_result.o = "raise"
                           /\ client_result.exc.msg.http = http_error.msg
                           /\ client_result.exc.msg.openai
                                = IF a.t = "raise" THEN a.exc.msg
                                  ELSE [t |-> "no_data_returned"]
       /\ (http_error # None /\ ~paralon_client.use_openai_client)
            => (sdk_calls = <<>> /\ client_result = Raise(http_error))
       /\ (http_error = None /\ client_result # NoResult)
            => (sdk_calls = <<>> /\ client_result.o = "return")

\* C7: the probe failed, the fallback was called once and failed too, and
\* the error of generate names both causes.
C7_Witness ==
    /\ req.handler = "generate"
    /\ Len(posts) = NumCandidates
    /\ Len(sdk_calls) = 1
    /\ sdk_calls[1].answer.t = "raise"
    /\ client_result.o = "raise"
    /\ client_result.exc.msg.http = http_error.msg
    /\ client_result.exc.msg.openai = sdk_calls[1].answer.exc.msg

\* C8: a transport failure on candidate i does not end the probe: it is
\* recorded as the last error and, when i is not the last candidate, the
\* next POST, to candidate i+1, is what the client does next.
C8_TransportFailureContinues ==
    (req.handler = "generate" /\ post_answer.t = "raise")
    => /\ last_error = post_answer.exc.msg
       /\ PostsInOrder
       /\ Len(posts) < NumCandidates
            => (pc = "probe" /\ http_error = None /\ client_result = NoResult)

\* C8: a candidate was POSTed after the transport failure of the one
\* before it, which in turn failed as well and is the last error.
C8_Witness ==
    /\ pc = "probe"
    /\ Len(posts) = 3
    /\ \E a \in earlier_answers : a.t = "raise"
    /\ post_answer.t = "raise"
    /\ last_error = post_answer.exc.msg

\* The error text le names the failure of the candidate that answered a.
NamesFailureOf(le, a) ==
    CASE a.t = "raise" -> le = a.exc.msg
      [] a.status = 200 -> le = ResponseJson(a.text).msg
      [] OTHER -> /\ le.t \in {"api_status", "endpoint_not_found"}
                  /\ le.t = "api_status"
                       => (le.status = a.status /\ le.text = a.text)
                  /\ le.t = "endpoint_not_found" => a.status = 404

\* C9: when all candidates were tried without success, the probe's error
\* is the aggregate error naming the configured base URL and the last
\* failure recorded, which after a scan with a failing candidate is the
\* failure of the latest failing candidate.
C9_AggregateNamesLatestFailure ==
    (req.handler = "generate" /\ http_error # None)
    => /\ Len(posts) = NumCandidates
       /\ http_error.msg.t = "all_endpoints_failed"
       /\ http_error.msg.base_url = paralon_client.base_url
       /\ http_error.msg.last_error = last_error
       /\ last_failed # NoResult
            => NamesFailureOf(http_error.msg.last_error, last_failed)

\* The file a saved path of the response stands for.
FileOf(sp) ==
    CHOOSE f \in files :
        f.path = [dir |-> "generated", uuid |-> sp.uuid, suffix |-> sp.suffix]

\* C10: every reference the client returned is persisted by its kind, in
\* the generate, edit and variation handlers: what goes to the network
\* fetch is a URL, the file of a URL holds the body fetched from it, and
\* the file of an inline reference holds its decoded bytes.
C10_PersistedByKind ==
    /\ \A i \in 1..Len(fetches) : IsHttpUrl(fetches[i])
    /\ \A k \in 1..Len(saved_paths) :
          LET ref == image_data[k]
          IN  /\ \E f \in files : f = FileOf(saved_paths[k])
              /\ IsHttpUrl(ref) => FileOf(saved_paths[k]).content = FetchBody(ref.s)
              /\ (ref.t = "str" /\ ~IsHttpUrl(ref))
                   => FileOf(saved_paths[k]).content = B64Decode(ref)

\* A base64 text is invalid when it holds a character outside the alphabet
\* or its length is not a multiple of four.
InvalidBase64(s) ==
    \/ \E i \in 1..Len(B64Chars(s)) : B64Chars(s)[i] \notin B64Alphabet
    \/ Len(B64Chars(s)) % 4 # 0

\* C11: when the generate handler has processed an inline reference whose
\* base64 content is invalid, it has failed with a decode error and no
\* file exists at the destination path of that reference.
C11_InvalidBase64WritesNothing ==
    \A k \in 1..Len(image_data) :
        ( /\ req.handler = "generate"
          /\ image_data[k].t = "str" /\ ~IsHttpUrl(image_data[k])
          /\ InvalidBase64(image_data[k].s) )
        => /\ Len(saved_paths) < k
           /\ (pc = "responded" /\ Len(saved_paths) = k - 1)
                => /\ response.o = "raise"
                   /\ response.exc.msg.detail.t = "error_processing_image"
                   /\ response.exc.msg.detail.cause.t = "incorrect_padding"
                   /\ \A f \in files :
                         f.path # Path("generated", next_uuid - 1, <<".png">>)

\* C12: under every interleaving of the concurrent handlers no two writes
\* target the same path, and every file on disk is the file of one write.
C12_NoTwoWritesToOnePath ==
    /\ \A w1, w2 \in writes : w1.path = w2.path => w1 = w2
    /\ \A f \in files : \E w \in writes : w.path = f.path
    /\ \A f, g \in files : f.path = g.path => f = g

\* C12: two handlers that upload a file of the same name have both
\* written it, the names having been built before either write.
C12_Witness ==
    /\ \E w1, w2 \in writes :
          /\ w1.by[1] # w2.by[1]
          /\ w1.path.dir = "uploads" /\ w2.path.dir = "uploads"
          /\ w1.path.suffix = w2.path.suffix
          /\ w1.path.uuid = 2 /\ w2.path.uuid = 1
          /\ w1.by[1] = 1
    /\ Cardinality(files) >= 2

HasArray(body, name) ==
    body.t = "dict" /\ name \in DOMAIN body.v /\ body.v[name].t = "list"

\* The reference of one object of a `data` array: its url if present,
\* else its b64_json.
UrlElseB64(obj) == IF "url" \in DOMAIN obj.v THEN obj.v.url ELSE obj.v.b64_json

\* Every object of the array carries a url or a b64_json.
AllCarryReference(items) ==
    \A j \in 1..Len(items) : {"url", "b64_json"} \cap DOMAIN items[j].v # {}

\* C14: the normalization of a 200 body follows the fixed priority: a
\* `data` array gives the url, else the b64_json, of each of its objects in
\* order; else an `images` array gives that array; else a body that is an
\* array gives the body; else the result is the one-element list holding
\* the whole body as a string.
C14_NormalizationPriority ==
    pc = "normalized"
    => LET body == post_answer.data
       IN  IF HasArray(body, "data")
           THEN AllCarryReference(body.v.data.v)
                => client_result =
                     Return([j \in 1..Len(body.v.data.v) |->
                                UrlElseB64(body.v.data.v[j])])
           ELSE IF HasArray(body, "images")
           THEN client_result = Return(body.v.images.v)
           ELSE IF body.t = "list"
           THEN client_result = Return(body.v)
           ELSE /\ client_result.o = "return"
                /\ Len(client_result.v) = 1
                /\ client_result.v[1].t = "str"
                /\ client_result.v[1].of = body

\* The object carries a reference under `name`: the attribute is there
\* and is not None.
Carries(img, name) == HasAttr(img, name) /\ img.attrs[name] # None

\* C15: for edit and variation the result is the url of every element
\* when the elements carry a url, the b64_json of every element when no
\* element carries a url, and the empty list for an empty array; the
\* result holds no absent reference.
C15_UrlsElseB64OverAll ==
    ( /\ req.handler \in {"edit", "variation"}
      /\ sdk_calls # <<>>
      /\ sdk_calls[1].answer.t = "sdk_response" )
    => LET data == sdk_calls[1].answer.data
           items == IF IsTrue(data) THEN data.v ELSE <<>>
       IN  /\ client_result.o = "return"
           /\ \A i \in 1..Len(client_result.v) : client_result.v[i] # None
           /\ items = <<>> => client_result.v = <<>>
           /\ (items # <<>> /\ \A i \in 1..Len(items) : Carries(items[i], "url"))
                => client_result.v = [i \in 1..Len(items) |-> items[i].attrs.url]
           /\ (items # <<>> /\ \A i \in 1..Len(items) : ~Carries(items[i], "url"))
                => client_result.v = [i \in 1..Len(items) |-> items[i].attrs.b64_json]

\* C16: every payload POSTed by generate holds the prompt, model, size and
\* n of the request, and holds quality, that of the request, exactly when
\* the model is "dall-e-3"; all candidates of a scan get the same payload.
C16_PayloadQualityOnlyForHD ==
    \A j \in 1..Len(posts) :
        LET payload == posts[j].payload
        IN  /\ {"prompt", "model", "size", "n"} \subseteq DOMAIN payload
            /\ DOMAIN payload \subseteq {"prompt", "model", "size", "n", "quality"}
            /\ payload.prompt = req.prompt /\ payload.model = req.model
            /\ payload.size = req.size /\ payload.n = req.n
            /\ "quality" \in DOMAIN payload <=> req.model = "dall-e-3"
            /\ "quality" \in DOMAIN payload => payload.quality = req.quality
            /\ payload = posts[1].payload

\* C16: a scan for a model other than "dall-e-3" has POSTed to all five
\* candidates, without quality.
C16_Witness ==
    /\ Len(posts) = NumCandidates
    /\ req.model = "dall-e-2"
    /\ \A j \in 1..Len(posts) : "quality" \notin DOMAIN posts[j].payload

\* C17: the fields of the fallback SDK call are the fields of the probe
\* payload, quality being in the one exactly when it is in the other.
C17_FallbackSendsProbePayload ==
    (req.handler = "generate" /\ sdk_calls # <<>> /\ posts # <<>>)
    => LET args == sdk_calls[1].args
           payload == posts[1].payload
       IN  /\ "quality" \in DOMAIN args <=> "quality" \in DOMAIN payload
           /\ DOMAIN args = DOMAIN payload
           /\ \A k \in DOMAIN args \cap DOMAIN payload : args[k] = payload[k]

\* A 200 whose body is normalized to the empty list.
EmptySuccess(a) ==
    /\ a.t = "response" /\ a.status = 200
    /\ ~IsExc(ResponseJson(a.text))
    /\ NormalizeImages(ResponseJson(a.text)) = Return(<<>>)

\* C18: a 200 whose normalized list is empty does not end the probe and
\* is not recorded as a failure: last_error stays as it was; when the
\* candidate was not the last the next POST is what comes next, and when
\* it was the last the probe fails with the aggregate error naming what
\* last_error held before.
C18_EmptySuccessGoesOn ==
    [][ (pc = "probe" /\ posts' # posts /\ EmptySuccess(post_answer'))
        => /\ last_error' = last_error
           /\ last_failed' = last_failed
           /\ Len(posts') < NumCandidates
                => (pc' = "probe" /\ http_error' = None /\ client_result' = NoResult)
           /\ Len(posts') = NumCandidates
                => /\ pc' # "probe"
                   /\ http_error' = AllFailed(last_error, paralon_client.base_url) ]_vars

\* C18: the last candidate answered 200 without images after a failure
\* was recorded, and the aggregate error names that failure.
C18_Witness ==
    /\ Len(posts) = NumCandidates
    /\ EmptySuccess(post_answer)
    /\ last_error # None
    /\ http_error = AllFailed(last_error, paralon_client.base_url)

\* C19: one call of generate makes at most five POSTs, one per candidate
\* in list order, and at most one SDK call, after the last POST; after the
\* fifth POST the probe is over and after the SDK call generate is over,
\* so that generate has ended after at most six remote calls.
C19_AtMostSixRemoteCalls ==
    req.handler = "generate"
    => /\ Len(posts) <= NumCandidates
       /\ PostsInOrder
       /\ Len(sdk_calls) <= 1
       /\ Len(posts) + Len(sdk_calls) <= NumCandidates + 1
       /\ Len(posts) = NumCandidates => pc # "probe"
       /\ pc = "fallback" => (Len(posts) = NumCandidates /\ sdk_calls = <<>>)
       /\ sdk_calls # <<>>
            => /\ Len(posts) = NumCandidates
               /\ pc \notin {"probe", "fallback"}
               /\ client_result # NoResult
       /\ (pc \in {"persist", "responded"} /\ posts # <<>>) => client_result # NoResult

\* C19: generate has ended after six remote calls: five POSTs and the
\* SDK call.
C19_Witness ==
    /\ req.handler = "generate"
    /\ Len(posts) = NumCandidates
    /\ Len(sdk_calls) = 1
    /\ client_result # NoResult
    /\ pc \in {"persist", "responded"}

\* C20: when generate of the client returns, from the probe or from the
\* fallback, the list is not empty, and the handler does not answer "No
\* images returned from API".
C20_ReturnedListNotEmpty ==
    req.handler = "generate"
    => /\ client_result.o = "return" => client_result.v # <<>>
       /\ response.o = "raise"
            => response.exc.msg.detail.t # "no_images_returned"

\* C20: the fallback has returned a list, which is not empty, and the
\* handler is about to save it.
C20_Witness ==
    /\ req.handler = "generate"
    /\ sdk_calls # <<>>
    /\ client_result.o = "return"
    /\ client_result.v # <<>>
    /\ image_data = client_result.v
    /\ pc = "persist"

\* The file in the generated directory that a served path names.
GeneratedFile(served_path) ==
    Path("generated", served_path.uuid, served_path.suffix)

\* The bytes the handler's loop writes for a reference when nothing fails:
\* the body fetched from a URL, the decoded base64 text, the bytes
\* themselves, or the encoded str() of any other value.
ContentOf(ref) ==
    IF ref.t = "str"
    THEN IF ref.s \in HttpStrings THEN FetchBody(ref.s) ELSE B64Decode(ref)
    ELSE IF ref.t = "bytes" THEN ref
    ELSE [t |-> "bytes", s |-> "str(img_data).encode()", of |-> ref]

\* The file a served path names is on disk in fs and holds the bytes of ref.
Persisted(fs, served_path, ref) ==
    [path |-> GeneratedFile(served_path), content |-> ContentOf(ref)] \in fs

\* One iteration of the generate handler's loop, for the k-th reference:
\* the files on disk stay, the only file written is the one named by the
\* uuid drawn for it, the only fetch is that of the k-th reference; when it
\* fails the handler ends with a failure and saved_paths as it was; when it
\* works the path joins saved_paths with its file on disk, and after the
\* last reference the body lists one path per reference, in order, each
\* with its file on disk.
PersistStep ==
    LET k == Len(saved_paths) + 1
        save_path == Path("generated", next_uuid, <<".png">>)
    IN  /\ k <= Len(image_data)
        /\ image_data' = image_data
        /\ files \subseteq files'
        /\ \A f \in files' \ files : f.path = save_path
        /\ fetches' \in {fetches, Append(fetches, image_data[k])}
        /\ IF response'.o = "raise"
           THEN /\ pc' = "responded"
                /\ saved_paths' = saved_paths
           ELSE /\ saved_paths' = Append(saved_paths, ServedPath(save_path))
                /\ Persisted(files', saved_paths'[k], image_data[k])
                /\ IF k = Len(image_data)
                   THEN /\ pc' = "responded"
                        /\ response'.o = "return"
                        /\ response'.v.success
                        /\ response'.v.images = saved_paths'
                        /\ Len(response'.v.images) = Len(image_data)
                        /\ \A j \in 1..Len(image_data) :
                              Persisted(files', response'.v.images[j], image_data[j])
                   ELSE /\ pc' = "persist"
                        /\ response' = NoResult

\* C21: the generate handler persists the references one by one in the
\* order returned; a success response lists exactly one local path per
\* reference, in that order, each written before the response; when
\* persisting the k-th reference fails the handler answers with a failure,
\* the files written for references 1..k-1 stay on disk, and once the
\* handler has its answer no further reference is processed (no file is
\* written, nothing is fetched).
C21_PersistInOrderNoRollback ==
    [][ req.handler = "generate"
        => /\ pc = "persist" => PersistStep
           /\ pc = "responded" => (files' = files /\ fetches' = <<>>) ]_vars

\* C21: the response of the provider held two references, the first was
\* written, persisting the second failed: the handler answered with a
\* failure, the first file is on disk and only the second was fetched.
C21_Witness ==
    /\ req.handler = "generate"
    /\ pc = "responded"
    /\ response.o = "raise"
    /\ Len(image_data) = 2
    /\ Len(saved_paths) = 1
    /\ Persisted(files, saved_paths[1], image_data[1])
    /\ fetches = <<image_data[2]>>

====
